---- MODULE Spec2Model ----
(***************************************************************************)
(* pocket-http-db: the request handlers of router/router.go over the       *)
(* in-memory mirror (package cache) and the durable Store (Writer).        *)
(*                                                                         *)
(* Every request is served by its own goroutine (net/http); the handlers   *)
(* take no lock, so the steps of two requests interleave at every access   *)
(* to the shared mirror and at every Writer call.                          *)
(***************************************************************************)
EXTENDS Integers, Sequences, FiniteSets, TLC

VARIABLES
    running,        \* NewRouter returned a *Router (SetCache succeeded)
    APIKeys,        \* Router.APIKeys, as a set of the keys mapped to true
    environ,        \* the process environment: the variable's value if set
    envCall,        \* GetStringMap: its arguments and result once it returned
    apps,           \* Cache: applications by ID
    lbs,            \* Cache: load balancers by ID
    bcs,            \* Cache: blockchains by ID
    payPlans,       \* Cache: pay plans by plan type
    appsByUser,     \* Cache: application IDs by owning user
    lbsByUser,      \* Cache: load balancer IDs by owning user
    storeApps,      \* Store: applications rows
    storeLBs,       \* Store: loadbalancers rows
    storeBCs,       \* Store: blockchains rows
    storeRedirects, \* Store: redirects rows
    pc,             \* per request goroutine: its position
    req,            \* per request goroutine: the request it serves
    loc,            \* per request goroutine: the handler's locals
    resp            \* per request goroutine: the response written

vars == <<running, APIKeys, environ, envCall, apps, lbs, bcs, payPlans, appsByUser, lbsByUser,
          storeApps, storeLBs, storeBCs, storeRedirects, pc, req, loc, resp>>

cacheVars == <<apps, lbs, bcs, payPlans, appsByUser, lbsByUser>>
storeVars == <<storeApps, storeLBs, storeBCs, storeRedirects>>
routerVars == <<running, APIKeys>>
envVars == <<environ, envCall>>

(***************************************************************************)
(* Bounds of the model.                                                    *)
(***************************************************************************)
\* the request goroutines in flight at once; each serves one request
Procs == {"p1", "p2"}
\* at most this many members of an update body (remove among them) are
\* non-zero
MaxFieldsSet == 2
\* at most this many application IDs in an UpdateFirstDateSurpassed body
MaxIDs == 2

(***************************************************************************)
(* HTTP status codes (net/http).                                           *)
(***************************************************************************)
StatusOK == 200
StatusBadRequest == 400
StatusUnauthorized == 401
StatusNotFound == 404
StatusInternalServerError == 500

\* repository.AwaitingGracePeriod
AwaitingGracePeriod == "AWAITING_GRACE_PERIOD"

(***************************************************************************)
(* The dataset the Store holds at startup.  A pointer is a sequence of     *)
(* length 0 (nil) or 1.  time.Time is an integer, 0 its zero value.        *)
(***************************************************************************)
SeedPayPlans ==
    [t \in {"FREETIER_V0", "TEST_PLAN_10K"} |->
        [planType |-> t,
         dailyLimit |-> IF t = "FREETIER_V0" THEN 250000 ELSE 10000]]

ZeroLimits == [planType |-> "", dailyLimit |-> 0]

SeedApps ==
    [id \in {"a1", "a2"} |->
        [id |-> id,
         userID |-> IF id = "a1" THEN "u1" ELSE "u2",
         name |-> "n0",
         status |-> "IN_SERVICE",
         payPlanType |-> IF id = "a1" THEN "FREETIER_V0" ELSE "",
         limits |-> ZeroLimits,
         firstDateSurpassed |-> 0,
         publicKey |-> IF id = "a1" THEN "pk1" ELSE "pk2",
         gatewaySettings |-> [secretKey |-> "sk0", secretKeyRequired |-> TRUE],
         notificationSettings |-> [signedUp |-> TRUE, onFull |-> TRUE]]]

SeedLBs ==
    [id \in {"l1"} |->
        [id |-> id,
         userID |-> "u1",
         name |-> "lb0",
         applicationIDs |-> <<"a1">>,
         applications |-> <<>>,
         stickyOptions |-> [duration |-> "60", stickiness |-> TRUE]]]

SeedBCs == [id \in {"b1"} |-> [id |-> id, active |-> TRUE]]

(***************************************************************************)
(* package cache (not among the sources): SetCache and the lookups, as     *)
(* the specification describes them.                                       *)
(***************************************************************************)
\* derived-field assembly of an application: limits from its pay plan, the
\* redundant payPlanType cleared
AssembleApplication(app, plans) ==
    IF app.payPlanType # "" /\ app.payPlanType \in DOMAIN plans
    THEN [app EXCEPT
            !.limits = [planType |-> plans[app.payPlanType].planType,
                        dailyLimit |-> plans[app.payPlanType].dailyLimit],
            !.payPlanType = ""]
    ELSE app

\* derived-field assembly of a load balancer: member applications resolved
AssembleLoadBalancer(lb) ==
    [lb EXCEPT
        !.applicationIDs = <<>>,
        !.applications =
            [i \in 1..Len(lb.applicationIDs) |-> <<lb.applicationIDs[i]>>]]

RECURSIVE IDsOwnedBy(_, _, _)
IDsOwnedBy(entities, ids, user) ==
    IF ids = {} THEN <<>>
    ELSE LET id == CHOOSE x \in ids : TRUE
             rest == IDsOwnedBy(entities, ids \ {id}, user)
         IN IF entities[id].userID = user THEN <<id>> \o rest ELSE rest

Owners(entities) == {entities[id].userID : id \in DOMAIN entities} \ {""}

SecondaryIndex(entities) ==
    [u \in Owners(entities) |-> IDsOwnedBy(entities, DOMAIN entities, u)]

Cache_GetApplication(id) == IF id \in DOMAIN apps THEN <<id>> ELSE <<>>
Cache_GetLoadBalancer(id) == IF id \in DOMAIN lbs THEN <<id>> ELSE <<>>
Cache_GetBlockchain(id) == IF id \in DOMAIN bcs THEN <<id>> ELSE <<>>
Cache_GetPayPlan(t) == IF t \in DOMAIN payPlans THEN <<payPlans[t]>> ELSE <<>>

(***************************************************************************)
(* NewRouter: the state after construction.                                *)
(***************************************************************************)
NoReq == [route |-> "none", auth |-> "", id |-> "", in |-> <<>>]
NoLoc == [err |-> "", todo |-> <<>>, pre |-> <<>>]
NoResp == [code |-> 0, body |-> <<>>]

\* what cache.SetCache may return
SetCacheResults == {"nil", "error"}

\* the error of SetCache dropped: a Router is returned whatever it was
NewRouter_ErrorDropped(err) == TRUE

\* lines 59-62: NewRouter returns a Router only if SetCache returned no error
NewRouter(err) == err = "nil"

Init ==
    /\ APIKeys = {"key1"}
    /\ environ = <<>>
    /\ envCall = <<>>
    /\ storeApps = SeedApps
    /\ storeLBs = SeedLBs
    /\ storeBCs = SeedBCs
    /\ storeRedirects = {}
    /\ \E err \in SetCacheResults :
        /\ running = NewRouter(err)
        /\ \/ /\ err = "nil"
              /\ payPlans = SeedPayPlans
              /\ apps = [id \in DOMAIN SeedApps |->
                            AssembleApplication(SeedApps[id], SeedPayPlans)]
              /\ lbs = [id \in DOMAIN SeedLBs |->
                            AssembleLoadBalancer(SeedLBs[id])]
              /\ bcs = SeedBCs
              /\ appsByUser = SecondaryIndex(SeedApps)
              /\ lbsByUser = SecondaryIndex(SeedLBs)
           \/ /\ err # "nil"
              /\ payPlans = << >>
              /\ apps = << >>
              /\ lbs = << >>
              /\ bcs = << >>
              /\ appsByUser = << >>
              /\ lbsByUser = << >>
    /\ pc = [p \in Procs |-> "idle"]
    /\ req = [p \in Procs |-> NoReq]
    /\ loc = [p \in Procs |-> NoLoc]
    /\ resp = [p \in Procs |-> NoResp]

(***************************************************************************)
(* Requests.  The inputs of one request are drawn from these sets.         *)
(***************************************************************************)
Routes ==
    {"HealthCheck", "GetBlockchains", "CreateBlockchain", "GetBlockchain",
     "ActivateBlockchain", "GetApplications", "CreateApplication",
     "GetApplicationsLimits", "GetApplication", "UpdateApplication",
     "UpdateFirstDateSurpassed", "GetLoadBalancers", "CreateLoadBalancer",
     "GetLoadBalancer", "UpdateLoadBalancer", "GetApplicationByUserID",
     "GetLoadBalancerByUserID", "GetPayPlans", "GetPayPlan", "CreateRedirect"}

AuthHeaders == {"key1", "wrong"}
AppIDsIn == {"a1", "a2", "a3"}
\* the applications update requests name: one cached, one unknown
UpdateAppIDsIn == {"a1", "a3"}
LBIDsIn == {"l1", "l2"}
BCIDsIn == {"b1", "b2"}
UserIDsIn == {"u1", "u3"}
WriterResults == {"nil", "error"}

UpdateApplicationFields ==
    <<"name", "status", "payPlanType", "firstDateSurpassed",
      "gatewaySettings", "notificationSettings">>

ZeroUpdateApplication ==
    [name |-> "", status |-> "", payPlanType |-> "", firstDateSurpassed |-> 0,
     gatewaySettings |-> <<>>, notificationSettings |-> <<>>, remove |-> FALSE]

\* the fields of an update body that are not their type's zero value
SetFields(fields, zero, in) == SelectSeq(fields, LAMBDA f : in[f] # zero[f])

UpdateApplicationInputs ==
    {in \in [name : {"", "n1"},
             status : {"", "ORPHANED"},
             payPlanType : {"", "TEST_PLAN_10K", "FREETIER_V0", "UNKNOWN_PLAN"},
             firstDateSurpassed : {0, 7},
             gatewaySettings :
                {<<>>, <<[secretKey |-> "sk1", secretKeyRequired |-> FALSE]>>},
             notificationSettings :
                {<<>>, <<[signedUp |-> FALSE, onFull |-> TRUE]>>},
             remove : BOOLEAN] :
        Len(SetFields(UpdateApplicationFields, ZeroUpdateApplication, in))
            + (IF in.remove THEN 1 ELSE 0) <= MaxFieldsSet}

NewApplications ==
    {[id |-> "a3", userID |-> "u1", name |-> "n3", status |-> "IN_SERVICE",
      payPlanType |-> t, limits |-> ZeroLimits, firstDateSurpassed |-> 0,
      publicKey |-> "pk3",
      gatewaySettings |-> [secretKey |-> "", secretKeyRequired |-> FALSE],
      notificationSettings |-> [signedUp |-> FALSE, onFull |-> FALSE]] :
        t \in {"", "TEST_PLAN_10K", "UNKNOWN_PLAN"}}

RECURSIVE SeqsUpTo(_, _)
SeqsUpTo(S, n) ==
    IF n = 0 THEN {<<>>}
    ELSE LET shorter == SeqsUpTo(S, n - 1)
         IN shorter \cup {Append(s, x) : s \in shorter, x \in S}

UpdateFirstDateSurpassedInputs ==
    [applicationIDs : SeqsUpTo(AppIDsIn, MaxIDs), firstDateSurpassed : {9}]

\* a decoded body, or <<>> when json decoding fails
Bodies(inputs) == {<<>>} \cup {<<in>> : in \in inputs}

(***************************************************************************)
(* Writing a response ends the request.                                    *)
(***************************************************************************)
Respond(p, code, body) ==
    /\ pc' = [pc EXCEPT ![p] = "done"]
    /\ resp' = [resp EXCEPT ![p] = [code |-> code, body |-> body]]

\* a panic in a handler: net/http recovers it and drops the connection
Panic(p) ==
    /\ pc' = [pc EXCEPT ![p] = "aborted"]
    /\ UNCHANGED resp

\* the error of a Writer call dropped: the handler goes on as if it succeeded
WriterFailed_Ignored(err) == FALSE

\* `if err != nil { ...; return }` after a Writer call
WriterFailed(err) == err # "nil"

Extend(f, k, v) == [x \in DOMAIN f \cup {k} |-> IF x = k THEN v ELSE f[x]]

RECURSIVE ListOf(_, _)
ListOf(entities, ids) ==
    IF ids = {} THEN <<>>
    ELSE LET id == CHOOSE x \in ids : TRUE
         IN <<entities[id]>> \o ListOf(entities, ids \ {id})

Cache_GetApplications == ListOf(apps, DOMAIN apps)
Cache_GetLoadBalancers == ListOf(lbs, DOMAIN lbs)
Cache_GetBlockchains == ListOf(bcs, DOMAIN bcs)
Cache_GetPayPlans == ListOf(payPlans, DOMAIN payPlans)

Cache_GetApplicationsByUserID(u) ==
    IF u \in DOMAIN appsByUser
    THEN [i \in 1..Len(appsByUser[u]) |-> apps[appsByUser[u][i]]]
    ELSE <<>>

Cache_GetLoadBalancersByUserID(u) ==
    IF u \in DOMAIN lbsByUser
    THEN [i \in 1..Len(lbsByUser[u]) |-> lbs[lbsByUser[u][i]]]
    ELSE <<>>

(***************************************************************************)
(* The Store behind the Writer interface: a successful call makes the      *)
(* written values the ones the Store holds.                                *)
(***************************************************************************)
Writer_UpdateApplication(row, in) ==
    [row EXCEPT
        !.name = IF in.name # "" THEN in.name ELSE @,
        !.status = IF in.status # "" THEN in.status ELSE @,
        !.payPlanType = IF in.payPlanType # "" THEN in.payPlanType ELSE @,
        !.firstDateSurpassed =
            IF in.firstDateSurpassed # 0 THEN in.firstDateSurpassed ELSE @,
        !.gatewaySettings =
            IF in.gatewaySettings # <<>> THEN in.gatewaySettings[1] ELSE @,
        !.notificationSettings =
            IF in.notificationSettings # <<>>
            THEN in.notificationSettings[1] ELSE @]

Writer_RemoveApplication(row) == [row EXCEPT !.status = AwaitingGracePeriod]

Writer_UpdateFirstDateSurpassed(rows, in) ==
    [id \in DOMAIN rows |->
        IF \E i \in 1..Len(in.applicationIDs) : in.applicationIDs[i] = id
        THEN [rows[id] EXCEPT !.firstDateSurpassed = in.firstDateSurpassed]
        ELSE rows[id]]

\* the goroutines are named in the order their requests arrive
Arrived(p) == p = "p2" => pc["p1"] # "idle"

(***************************************************************************)
(* AuthorizationHandler: the middleware every request passes first.        *)
(***************************************************************************)
\* the Authorization header not looked up: every request goes to its handler
AuthorizationHandler_NoGate(p) ==
    /\ running
    /\ pc[p] = "idle"
    /\ Arrived(p)
    /\ \E route \in Routes, key \in AuthHeaders :
        /\ req' = [req EXCEPT ![p] = [NoReq EXCEPT !.route = route, !.auth = key]]
        /\ pc' = [pc EXCEPT ![p] = "routed"]
        /\ UNCHANGED resp
    /\ UNCHANGED <<envVars, routerVars, cacheVars, storeVars, loc>>

AuthorizationHandler(p) ==
    /\ running
    /\ pc[p] = "idle"
    /\ Arrived(p)
    /\ \E route \in Routes, key \in AuthHeaders :
        /\ req' = [req EXCEPT ![p] = [NoReq EXCEPT !.route = route, !.auth = key]]
        /\ IF route = "HealthCheck"
           THEN pc' = [pc EXCEPT ![p] = "routed"] /\ UNCHANGED resp
           ELSE IF key \notin APIKeys
                THEN Respond(p, StatusUnauthorized, "Unauthorized")
                ELSE pc' = [pc EXCEPT ![p] = "routed"] /\ UNCHANGED resp
    /\ UNCHANGED <<envVars, routerVars, cacheVars, storeVars, loc>>

Routed(p, route) == pc[p] = "routed" /\ req[p].route = route

HealthCheck(p) ==
    /\ Routed(p, "HealthCheck")
    /\ Respond(p, StatusOK, "Pocket HTTP DB is up and running!")
    /\ UNCHANGED <<envVars, routerVars, cacheVars, storeVars, req, loc>>

(***************************************************************************)
(* Applications.                                                           *)
(***************************************************************************)
GetApplications(p) ==
    /\ Routed(p, "GetApplications")
    /\ Respond(p, StatusOK, Cache_GetApplications)
    /\ UNCHANGED <<envVars, routerVars, cacheVars, storeVars, req, loc>>

\* the pointer to firstDateSurpassed set whether or not the date is zero
AppLimitsOf_DateAlways(app) ==
    [planType |-> app.limits.planType,
     dailyLimit |-> app.limits.dailyLimit,
     appID |-> app.id,
     appName |-> app.name,
     appUserID |-> app.userID,
     publicKey |-> app.publicKey,
     notificationSettings |-> <<app.notificationSettings>>,
     firstDateSurpassed |-> <<app.firstDateSurpassed>>]

\* lines 139-151: the AppLimits entry of one cached application
AppLimitsOf(app) ==
    [planType |-> app.limits.planType,
     dailyLimit |-> app.limits.dailyLimit,
     appID |-> app.id,
     appName |-> app.name,
     appUserID |-> app.userID,
     publicKey |-> app.publicKey,
     notificationSettings |-> <<app.notificationSettings>>,
     firstDateSurpassed |->
        IF app.firstDateSurpassed # 0 THEN <<app.firstDateSurpassed>> ELSE <<>>]

GetApplicationsLimits(p) ==
    /\ Routed(p, "GetApplicationsLimits")
    /\ LET all == Cache_GetApplications
       IN Respond(p, StatusOK, [i \in 1..Len(all) |-> AppLimitsOf(all[i])])
    /\ UNCHANGED <<envVars, routerVars, cacheVars, storeVars, req, loc>>

\* an application with empty fields returned for an identifier not indexed
GetApplication_DefaultOnMiss(p) ==
    /\ Routed(p, "GetApplication")
    /\ \E id \in AppIDsIn :
        /\ req' = [req EXCEPT ![p].id = id]
        /\ IF Cache_GetApplication(id) = <<>>
           THEN Respond(p, StatusOK, [id |-> "", name |-> "", status |-> ""])
           ELSE Respond(p, StatusOK, apps[id])
    /\ UNCHANGED <<envVars, routerVars, cacheVars, storeVars, loc>>

GetApplication(p) ==
    /\ Routed(p, "GetApplication")
    /\ \E id \in AppIDsIn :
        /\ req' = [req EXCEPT ![p].id = id]
        /\ IF Cache_GetApplication(id) = <<>>
           THEN Respond(p, StatusNotFound, "applications not found")
           ELSE Respond(p, StatusOK, apps[id])
    /\ UNCHANGED <<envVars, routerVars, cacheVars, storeVars, loc>>

\* the limits assembled, the payPlanType left on the returned object
CreateApplication_Limits_KeepsPlanType(fullApp, newPlan) ==
    [fullApp EXCEPT
        !.limits = [planType |-> newPlan.planType,
                    dailyLimit |-> newPlan.dailyLimit]]

\* lines 189-197: limits assembled from the cached plan, payPlanType cleared
CreateApplication_Limits(fullApp, newPlan) ==
    [fullApp EXCEPT
        !.limits = [planType |-> newPlan.planType,
                    dailyLimit |-> newPlan.dailyLimit],
        !.payPlanType = ""]

CreateApplication(p) ==
    /\ Routed(p, "CreateApplication")
    /\ \E body \in Bodies(NewApplications) :
        /\ req' = [req EXCEPT ![p].in = body]
        /\ IF body = <<>>
           THEN Respond(p, StatusBadRequest, "decode error")
           ELSE pc' = [pc EXCEPT ![p] = "CreateApplication_Writer"]
                /\ UNCHANGED resp
    /\ UNCHANGED <<envVars, routerVars, cacheVars, storeVars, loc>>

CreateApplication_Writer(p) ==
    /\ pc[p] = "CreateApplication_Writer"
    /\ LET app == req[p].in[1]
       IN \E err \in WriterResults :
            /\ err = "nil" => app.id \notin DOMAIN storeApps
            /\ loc' = [loc EXCEPT ![p].err = err]
            /\ IF WriterFailed(err)
               THEN /\ Respond(p, StatusInternalServerError, "store error")
                    /\ UNCHANGED storeApps
               ELSE /\ storeApps' = Extend(storeApps, app.id, app)
                    /\ IF app.payPlanType = ""
                       THEN Respond(p, StatusOK, app)
                       ELSE IF Cache_GetPayPlan(app.payPlanType) = <<>>
                            THEN Panic(p)
                            ELSE Respond(p, StatusOK,
                                    CreateApplication_Limits(app,
                                        Cache_GetPayPlan(app.payPlanType)[1]))
    /\ UNCHANGED <<envVars, routerVars, cacheVars, storeLBs, storeBCs, storeRedirects, req>>

\* the plan's daily limit not carried over
UpdateApplication_Limits_NoDailyLimit(newPlan) ==
    [planType |-> newPlan.planType, dailyLimit |-> 0]

\* lines 249-252: the limits assembled from the cached plan
UpdateApplication_Limits(newPlan) ==
    [planType |-> newPlan.planType, dailyLimit |-> newPlan.dailyLimit]

\* the removal transition not replayed into the mirror
UpdateApplication_Remove_NotReplayed(app) == app

\* line 232: the removal transition of an application
UpdateApplication_Remove(app) == [app EXCEPT !.status = AwaitingGracePeriod]

\* the nested settings merged sub-field by sub-field, a zero sub-field of the
\* body keeping the cached one
UpdateApplication_Assign_PerSubField(cache, id, f, in) ==
    CASE f = "remove" ->
            [cache EXCEPT ![id] = UpdateApplication_Remove(@)]
      [] f = "name" ->
            [cache EXCEPT ![id].name = in.name]
      [] f = "status" ->
            [cache EXCEPT ![id].status = in.status]
      [] f = "payPlanType" ->
            [cache EXCEPT ![id].limits =
                UpdateApplication_Limits(Cache_GetPayPlan(in.payPlanType)[1])]
      [] f = "firstDateSurpassed" ->
            [cache EXCEPT ![id].firstDateSurpassed = in.firstDateSurpassed]
      [] f = "gatewaySettings" ->
            [cache EXCEPT
                ![id].gatewaySettings.secretKey =
                    IF in.gatewaySettings[1].secretKey # ""
                    THEN in.gatewaySettings[1].secretKey ELSE @,
                ![id].gatewaySettings.secretKeyRequired =
                    IF in.gatewaySettings[1].secretKeyRequired
                    THEN TRUE ELSE @]
      [] f = "notificationSettings" ->
            [cache EXCEPT
                ![id].notificationSettings.signedUp =
                    IF in.notificationSettings[1].signedUp THEN TRUE ELSE @,
                ![id].notificationSettings.onFull =
                    IF in.notificationSettings[1].onFull THEN TRUE ELSE @]

\* lines 232, 241-262: one assignment through the pointer into the cache
UpdateApplication_Assign(cache, id, f, in) ==
    CASE f = "remove" ->
            [cache EXCEPT ![id] = UpdateApplication_Remove(@)]
      [] f = "name" ->
            [cache EXCEPT ![id].name = in.name]
      [] f = "status" ->
            [cache EXCEPT ![id].status = in.status]
      [] f = "payPlanType" ->
            [cache EXCEPT ![id].limits =
                UpdateApplication_Limits(Cache_GetPayPlan(in.payPlanType)[1])]
      [] f = "firstDateSurpassed" ->
            [cache EXCEPT ![id].firstDateSurpassed = in.firstDateSurpassed]
      [] f = "gatewaySettings" ->
            [cache EXCEPT ![id].gatewaySettings = in.gatewaySettings[1]]
      [] f = "notificationSettings" ->
            [cache EXCEPT ![id].notificationSettings = in.notificationSettings[1]]

\* the name assigned whether or not the body carries one
UpdateApplication_Todo_NameAlways(in) ==
    IF in.remove THEN <<"remove">>
    ELSE <<"name">> \o SetFields(Tail(UpdateApplicationFields),
                                 ZeroUpdateApplication, in)

\* the assignments UpdateApplication makes for a body, in program order
UpdateApplication_Todo(in) ==
    IF in.remove THEN <<"remove">>
    ELSE SetFields(UpdateApplicationFields, ZeroUpdateApplication, in)

UpdateApplication(p) ==
    /\ Routed(p, "UpdateApplication")
    /\ \E id \in UpdateAppIDsIn :
        IF Cache_GetApplication(id) = <<>>
        THEN /\ req' = [req EXCEPT ![p].id = id]
             /\ Respond(p, StatusNotFound, "applications not found")
        ELSE \E body \in Bodies(UpdateApplicationInputs) :
             /\ req' = [req EXCEPT ![p].id = id, ![p].in = body]
             /\ IF body = <<>>
                THEN Respond(p, StatusBadRequest, "decode error")
                ELSE pc' = [pc EXCEPT ![p] = "UpdateApplication_Writer"]
                     /\ UNCHANGED resp
    /\ UNCHANGED <<envVars, routerVars, cacheVars, storeVars, loc>>

UpdateApplication_Writer(p) ==
    /\ pc[p] = "UpdateApplication_Writer"
    /\ LET id == req[p].id
           in == req[p].in[1]
       IN \E err \in WriterResults :
            /\ loc' = [loc EXCEPT ![p] =
                        [err |-> err, todo |-> UpdateApplication_Todo(in),
                         pre |-> <<apps[id]>>]]
            /\ storeApps' =
                IF err # "nil" THEN storeApps
                ELSE IF in.remove
                     THEN [storeApps EXCEPT ![id] = Writer_RemoveApplication(@)]
                     ELSE [storeApps EXCEPT ![id] = Writer_UpdateApplication(@, in)]
            /\ IF WriterFailed(err)
               THEN Respond(p, StatusInternalServerError, "store error")
               ELSE /\ pc' = [pc EXCEPT ![p] =
                            IF UpdateApplication_Todo(in) = <<>>
                            THEN "UpdateApplication_Respond"
                            ELSE "UpdateApplication_Assign"]
                    /\ UNCHANGED resp
    /\ UNCHANGED <<envVars, routerVars, cacheVars, storeLBs, storeBCs, storeRedirects, req>>

UpdateApplication_Merge(p) ==
    /\ pc[p] = "UpdateApplication_Assign"
    /\ LET id == req[p].id
           in == req[p].in[1]
           f == Head(loc[p].todo)
           rest == Tail(loc[p].todo)
       IN IF f = "payPlanType" /\ Cache_GetPayPlan(in.payPlanType) = <<>>
          THEN \* newPlan is nil: newPlan.PlanType panics
               /\ Panic(p)
               /\ UNCHANGED <<apps, loc>>
          ELSE /\ apps' = UpdateApplication_Assign(apps, id, f, in)
               /\ loc' = [loc EXCEPT ![p].todo = rest]
               /\ pc' = [pc EXCEPT ![p] =
                            IF rest = <<>> THEN "UpdateApplication_Respond"
                            ELSE "UpdateApplication_Assign"]
               /\ UNCHANGED resp
    /\ UNCHANGED <<envVars, routerVars, lbs, bcs, payPlans, appsByUser, lbsByUser,
                   storeVars, req>>

UpdateApplication_Respond(p) ==
    /\ pc[p] = "UpdateApplication_Respond"
    /\ Respond(p, StatusOK, apps[req[p].id])
    /\ UNCHANGED <<envVars, routerVars, cacheVars, storeVars, req, loc>>

\* the named applications not looked up before the Writer is called
UpdateFirstDateSurpassed_NoLookup(p) ==
    /\ Routed(p, "UpdateFirstDateSurpassed")
    /\ \E body \in Bodies(UpdateFirstDateSurpassedInputs) :
        /\ req' = [req EXCEPT ![p].in = body]
        /\ IF body = <<>>
           THEN Respond(p, StatusBadRequest, "decode error")
           ELSE IF Len(body[1].applicationIDs) = 0
           THEN Respond(p, StatusBadRequest, "no application IDs on input")
           ELSE pc' = [pc EXCEPT ![p] = "UpdateFirstDateSurpassed_Writer"]
                /\ UNCHANGED resp
    /\ UNCHANGED <<envVars, routerVars, cacheVars, storeVars, loc>>

UpdateFirstDateSurpassed(p) ==
    /\ Routed(p, "UpdateFirstDateSurpassed")
    /\ \E body \in Bodies(UpdateFirstDateSurpassedInputs) :
        /\ req' = [req EXCEPT ![p].in = body]
        /\ IF body = <<>>
           THEN Respond(p, StatusBadRequest, "decode error")
           ELSE IF Len(body[1].applicationIDs) = 0
           THEN Respond(p, StatusBadRequest, "no application IDs on input")
           ELSE IF \E i \in 1..Len(body[1].applicationIDs) :
                     Cache_GetApplication(body[1].applicationIDs[i]) = <<>>
           THEN Respond(p, StatusNotFound, "not found")
           ELSE pc' = [pc EXCEPT ![p] = "UpdateFirstDateSurpassed_Writer"]
                /\ UNCHANGED resp
    /\ UNCHANGED <<envVars, routerVars, cacheVars, storeVars, loc>>

UpdateFirstDateSurpassed_Writer(p) ==
    /\ pc[p] = "UpdateFirstDateSurpassed_Writer"
    /\ LET in == req[p].in[1]
       IN \E err \in WriterResults :
            /\ loc' = [loc EXCEPT ![p] =
                        [err |-> err, todo |-> in.applicationIDs, pre |-> <<>>]]
            /\ storeApps' =
                IF err # "nil" THEN storeApps
                ELSE Writer_UpdateFirstDateSurpassed(storeApps, in)
            /\ IF WriterFailed(err)
               THEN Respond(p, StatusInternalServerError, "store error")
               ELSE /\ pc' = [pc EXCEPT ![p] = "UpdateFirstDateSurpassed_Assign"]
                    /\ UNCHANGED resp
    /\ UNCHANGED <<envVars, routerVars, cacheVars, storeLBs, storeBCs, storeRedirects, req>>

UpdateFirstDateSurpassed_Assign(p) ==
    /\ pc[p] = "UpdateFirstDateSurpassed_Assign"
    /\ LET in == req[p].in[1]
           id == Head(loc[p].todo)
           rest == Tail(loc[p].todo)
       IN /\ apps' = [apps EXCEPT
                        ![id].firstDateSurpassed = in.firstDateSurpassed]
          /\ loc' = [loc EXCEPT ![p].todo = rest]
          /\ pc' = [pc EXCEPT ![p] =
                        IF rest = <<>> THEN "UpdateFirstDateSurpassed_Respond"
                        ELSE "UpdateFirstDateSurpassed_Assign"]
    /\ UNCHANGED <<envVars, routerVars, lbs, bcs, payPlans, appsByUser, lbsByUser,
                   storeVars, req, resp>>

UpdateFirstDateSurpassed_Respond(p) ==
    /\ pc[p] = "UpdateFirstDateSurpassed_Respond"
    /\ LET ids == req[p].in[1].applicationIDs
       IN Respond(p, StatusOK, [i \in 1..Len(ids) |-> apps[ids[i]]])
    /\ UNCHANGED <<envVars, routerVars, cacheVars, storeVars, req, loc>>

GetApplicationByUserID(p) ==
    /\ Routed(p, "GetApplicationByUserID")
    /\ \E u \in UserIDsIn :
        /\ req' = [req EXCEPT ![p].id = u]
        /\ IF Len(Cache_GetApplicationsByUserID(u)) = 0
           THEN Respond(p, StatusNotFound, "applications not found")
           ELSE Respond(p, StatusOK, Cache_GetApplicationsByUserID(u))
    /\ UNCHANGED <<envVars, routerVars, cacheVars, storeVars, loc>>

(***************************************************************************)
(* Blockchains and redirects.                                              *)
(***************************************************************************)
GetBlockchains(p) ==
    /\ Routed(p, "GetBlockchains")
    /\ Respond(p, StatusOK, Cache_GetBlockchains)
    /\ UNCHANGED <<envVars, routerVars, cacheVars, storeVars, req, loc>>

GetBlockchain(p) ==
    /\ Routed(p, "GetBlockchain")
    /\ \E id \in BCIDsIn :
        /\ req' = [req EXCEPT ![p].id = id]
        /\ IF Cache_GetBlockchain(id) = <<>>
           THEN Respond(p, StatusNotFound, "blockchain not found")
           ELSE Respond(p, StatusOK, bcs[id])
    /\ UNCHANGED <<envVars, routerVars, cacheVars, storeVars, loc>>

ActivateBlockchain(p) ==
    /\ Routed(p, "ActivateBlockchain")
    /\ \E id \in BCIDsIn, body \in Bodies(BOOLEAN) :
        /\ req' = [req EXCEPT ![p].id = id, ![p].in = body]
        /\ IF body = <<>>
           THEN Respond(p, StatusBadRequest, "decode error")
           ELSE pc' = [pc EXCEPT ![p] = "ActivateBlockchain_Writer"]
                /\ UNCHANGED resp
    /\ UNCHANGED <<envVars, routerVars, cacheVars, storeVars, loc>>

ActivateBlockchain_Writer(p) ==
    /\ pc[p] = "ActivateBlockchain_Writer"
    /\ LET id == req[p].id
           active == req[p].in[1]
       IN \E err \in WriterResults :
            /\ err = "nil" => id \in DOMAIN storeBCs
            /\ loc' = [loc EXCEPT ![p].err = err]
            /\ IF WriterFailed(err)
               THEN /\ Respond(p, StatusInternalServerError, "store error")
                    /\ UNCHANGED storeBCs
               ELSE /\ storeBCs' = [storeBCs EXCEPT ![id].active = active]
                    /\ Respond(p, StatusOK, active)
    /\ UNCHANGED <<envVars, routerVars, cacheVars, storeApps, storeLBs, storeRedirects,
                   req>>

NewBlockchains == {[id |-> "b2", active |-> a] : a \in BOOLEAN}

CreateBlockchain(p) ==
    /\ Routed(p, "CreateBlockchain")
    /\ \E body \in Bodies(NewBlockchains) :
        /\ req' = [req EXCEPT ![p].in = body]
        /\ IF body = <<>>
           THEN Respond(p, StatusBadRequest, "decode error")
           ELSE pc' = [pc EXCEPT ![p] = "CreateBlockchain_Writer"]
                /\ UNCHANGED resp
    /\ UNCHANGED <<envVars, routerVars, cacheVars, storeVars, loc>>

CreateBlockchain_Writer(p) ==
    /\ pc[p] = "CreateBlockchain_Writer"
    /\ LET blockchain == req[p].in[1]
       IN \E err \in WriterResults :
            /\ err = "nil" => blockchain.id \notin DOMAIN storeBCs
            /\ loc' = [loc EXCEPT ![p].err = err]
            /\ IF WriterFailed(err)
               THEN /\ Respond(p, StatusInternalServerError, "store error")
                    /\ UNCHANGED storeBCs
               ELSE /\ storeBCs' = Extend(storeBCs, blockchain.id, blockchain)
                    /\ Respond(p, StatusOK, blockchain)
    /\ UNCHANGED <<envVars, routerVars, cacheVars, storeApps, storeLBs, storeRedirects,
                   req>>

NewRedirects ==
    {[blockchainID |-> b, alias |-> "al", loadbalancer |-> "l1",
      domain |-> "d1"] : b \in BCIDsIn}

CreateRedirect(p) ==
    /\ Routed(p, "CreateRedirect")
    /\ \E body \in Bodies(NewRedirects) :
        /\ req' = [req EXCEPT ![p].in = body]
        /\ IF body = <<>>
           THEN Respond(p, StatusBadRequest, "decode error")
           ELSE pc' = [pc EXCEPT ![p] = "CreateRedirect_Writer"]
                /\ UNCHANGED resp
    /\ UNCHANGED <<envVars, routerVars, cacheVars, storeVars, loc>>

CreateRedirect_Writer(p) ==
    /\ pc[p] = "CreateRedirect_Writer"
    /\ LET redirect == req[p].in[1]
       IN \E err \in WriterResults :
            /\ err = "nil" => /\ redirect.blockchainID \in DOMAIN storeBCs
                              /\ redirect \notin storeRedirects
            /\ loc' = [loc EXCEPT ![p].err = err]
            /\ IF WriterFailed(err)
               THEN /\ Respond(p, StatusInternalServerError, "store error")
                    /\ UNCHANGED storeRedirects
               ELSE /\ storeRedirects' = storeRedirects \cup {redirect}
                    /\ Respond(p, StatusOK, redirect)
    /\ UNCHANGED <<envVars, routerVars, cacheVars, storeApps, storeLBs, storeBCs, req>>

(***************************************************************************)
(* Load balancers.                                                         *)
(***************************************************************************)
GetLoadBalancers(p) ==
    /\ Routed(p, "GetLoadBalancers")
    /\ Respond(p, StatusOK, Cache_GetLoadBalancers)
    /\ UNCHANGED <<envVars, routerVars, cacheVars, storeVars, req, loc>>

GetLoadBalancer(p) ==
    /\ Routed(p, "GetLoadBalancer")
    /\ \E id \in LBIDsIn :
        /\ req' = [req EXCEPT ![p].id = id]
        /\ IF Cache_GetLoadBalancer(id) = <<>>
           THEN Respond(p, StatusNotFound, "load balancer not found")
           ELSE Respond(p, StatusOK, lbs[id])
    /\ UNCHANGED <<envVars, routerVars, cacheVars, storeVars, loc>>

GetLoadBalancerByUserID(p) ==
    /\ Routed(p, "GetLoadBalancerByUserID")
    /\ \E u \in UserIDsIn :
        /\ req' = [req EXCEPT ![p].id = u]
        /\ IF Len(Cache_GetLoadBalancersByUserID(u)) = 0
           THEN Respond(p, StatusNotFound, "load balancer not found")
           ELSE Respond(p, StatusOK, Cache_GetLoadBalancersByUserID(u))
    /\ UNCHANGED <<envVars, routerVars, cacheVars, storeVars, loc>>

NewLoadBalancers ==
    {[id |-> "l2", userID |-> "u1", name |-> "lb2", applicationIDs |-> ids,
      applications |-> <<>>,
      stickyOptions |-> [duration |-> "", stickiness |-> FALSE]] :
        ids \in {<<>>, <<"a2", "a1">>, <<"a1", "a3">>}}

\* lines 445-449: the member applications resolved against the cache, the
\* raw ID list cleared
CreateLoadBalancer_Materialize(fullLB) ==
    [fullLB EXCEPT
        !.applications =
            [i \in 1..Len(fullLB.applicationIDs) |->
                Cache_GetApplication(fullLB.applicationIDs[i])],
        !.applicationIDs = <<>>]

CreateLoadBalancer(p) ==
    /\ Routed(p, "CreateLoadBalancer")
    /\ \E body \in Bodies(NewLoadBalancers) :
        /\ req' = [req EXCEPT ![p].in = body]
        /\ IF body = <<>>
           THEN Respond(p, StatusBadRequest, "decode error")
           ELSE pc' = [pc EXCEPT ![p] = "CreateLoadBalancer_Writer"]
                /\ UNCHANGED resp
    /\ UNCHANGED <<envVars, routerVars, cacheVars, storeVars, loc>>

CreateLoadBalancer_Writer(p) ==
    /\ pc[p] = "CreateLoadBalancer_Writer"
    /\ LET lb == req[p].in[1]
       IN \E err \in WriterResults :
            /\ err = "nil" => lb.id \notin DOMAIN storeLBs
            /\ loc' = [loc EXCEPT ![p].err = err]
            /\ IF WriterFailed(err)
               THEN /\ Respond(p, StatusInternalServerError, "store error")
                    /\ UNCHANGED storeLBs
               ELSE /\ storeLBs' = Extend(storeLBs, lb.id, lb)
                    /\ Respond(p, StatusOK, CreateLoadBalancer_Materialize(lb))
    /\ UNCHANGED <<envVars, routerVars, cacheVars, storeApps, storeBCs, storeRedirects,
                   req>>

UpdateLoadBalancerFields == <<"name", "stickyOptions">>

ZeroUpdateLoadBalancer ==
    [name |-> "", stickyOptions |-> <<>>, remove |-> FALSE]

UpdateLoadBalancerInputs ==
    [name : {"", "lb1", "lb2"},
     stickyOptions : {<<>>, <<[duration |-> "30", stickiness |-> FALSE]>>},
     remove : BOOLEAN]

Writer_UpdateLoadBalancer(row, in) ==
    [row EXCEPT
        !.name = IF in.name # "" THEN in.name ELSE @,
        !.stickyOptions =
            IF in.stickyOptions # <<>> THEN in.stickyOptions[1] ELSE @]

Writer_RemoveLoadBalancer(row) == [row EXCEPT !.userID = ""]

\* the stickiness options assigned together with the body's name, set or not
UpdateLoadBalancer_Assign_NameToo(cache, id, f, in) ==
    CASE f = "remove" -> [cache EXCEPT ![id].userID = ""]
      [] f = "name" -> [cache EXCEPT ![id].name = in.name]
      [] f = "stickyOptions" ->
            [cache EXCEPT ![id].stickyOptions = in.stickyOptions[1],
                          ![id].name = in.name]

\* lines 484, 493-498: one assignment through the pointer into the cache
UpdateLoadBalancer_Assign(cache, id, f, in) ==
    CASE f = "remove" -> [cache EXCEPT ![id].userID = ""]
      [] f = "name" -> [cache EXCEPT ![id].name = in.name]
      [] f = "stickyOptions" ->
            [cache EXCEPT ![id].stickyOptions = in.stickyOptions[1]]

\* the fields of a remove request merged after the removal transition
UpdateLoadBalancer_Todo_RemoveAndFields(in) ==
    IF in.remove
    THEN <<"remove">> \o SetFields(UpdateLoadBalancerFields,
                                   ZeroUpdateLoadBalancer, in)
    ELSE SetFields(UpdateLoadBalancerFields, ZeroUpdateLoadBalancer, in)

\* lines 476-498: the assignments UpdateLoadBalancer makes for a body
UpdateLoadBalancer_Todo(in) ==
    IF in.remove THEN <<"remove">>
    ELSE SetFields(UpdateLoadBalancerFields, ZeroUpdateLoadBalancer, in)

UpdateLoadBalancer(p) ==
    /\ Routed(p, "UpdateLoadBalancer")
    /\ \E id \in LBIDsIn :
        IF Cache_GetLoadBalancer(id) = <<>>
        THEN /\ req' = [req EXCEPT ![p].id = id]
             /\ Respond(p, StatusNotFound, "load balancer not found")
        ELSE \E body \in Bodies(UpdateLoadBalancerInputs) :
             /\ req' = [req EXCEPT ![p].id = id, ![p].in = body]
             /\ IF body = <<>>
                THEN Respond(p, StatusBadRequest, "decode error")
                ELSE pc' = [pc EXCEPT ![p] = "UpdateLoadBalancer_Writer"]
                     /\ UNCHANGED resp
    /\ UNCHANGED <<envVars, routerVars, cacheVars, storeVars, loc>>

UpdateLoadBalancer_Writer(p) ==
    /\ pc[p] = "UpdateLoadBalancer_Writer"
    /\ LET id == req[p].id
           in == req[p].in[1]
       IN \E err \in WriterResults :
            /\ loc' = [loc EXCEPT ![p] =
                        [err |-> err, todo |-> UpdateLoadBalancer_Todo(in),
                         pre |-> <<lbs[id]>>]]
            /\ storeLBs' =
                IF err # "nil" THEN storeLBs
                ELSE IF in.remove
                     THEN [storeLBs EXCEPT ![id] = Writer_RemoveLoadBalancer(@)]
                     ELSE [storeLBs EXCEPT ![id] = Writer_UpdateLoadBalancer(@, in)]
            /\ IF WriterFailed(err)
               THEN Respond(p, StatusInternalServerError, "store error")
               ELSE /\ pc' = [pc EXCEPT ![p] =
                            IF UpdateLoadBalancer_Todo(in) = <<>>
                            THEN "UpdateLoadBalancer_Respond"
                            ELSE "UpdateLoadBalancer_Assign"]
                    /\ UNCHANGED resp
    /\ UNCHANGED <<envVars, routerVars, cacheVars, storeApps, storeBCs, storeRedirects,
                   req>>

UpdateLoadBalancer_Merge(p) ==
    /\ pc[p] = "UpdateLoadBalancer_Assign"
    /\ LET rest == Tail(loc[p].todo)
       IN /\ lbs' = UpdateLoadBalancer_Assign(lbs, req[p].id, Head(loc[p].todo),
                                              req[p].in[1])
          /\ loc' = [loc EXCEPT ![p].todo = rest]
          /\ pc' = [pc EXCEPT ![p] =
                        IF rest = <<>> THEN "UpdateLoadBalancer_Respond"
                        ELSE "UpdateLoadBalancer_Assign"]
    /\ UNCHANGED <<envVars, routerVars, apps, bcs, payPlans, appsByUser, lbsByUser,
                   storeVars, req, resp>>

UpdateLoadBalancer_Respond(p) ==
    /\ pc[p] = "UpdateLoadBalancer_Respond"
    /\ Respond(p, StatusOK, lbs[req[p].id])
    /\ UNCHANGED <<envVars, routerVars, cacheVars, storeVars, req, loc>>

(***************************************************************************)
(* Pay plans.                                                              *)
(***************************************************************************)
PlanTypesIn == {"test_plan_10k", "FREETIER_V0", "nope"}

\* strings.ToUpper on the plan types a request may name
ToUpper(s) ==
    CASE s = "test_plan_10k" -> "TEST_PLAN_10K"
      [] s = "nope" -> "NOPE"
      [] OTHER -> s

GetPayPlan(p) ==
    /\ Routed(p, "GetPayPlan")
    /\ \E t \in PlanTypesIn :
        /\ req' = [req EXCEPT ![p].id = t]
        /\ IF Cache_GetPayPlan(ToUpper(t)) = <<>>
           THEN Respond(p, StatusNotFound, "pay plan not found")
           ELSE Respond(p, StatusOK, Cache_GetPayPlan(ToUpper(t))[1])
    /\ UNCHANGED <<envVars, routerVars, cacheVars, storeVars, loc>>

GetPayPlans(p) ==
    /\ Routed(p, "GetPayPlans")
    /\ Respond(p, StatusOK, Cache_GetPayPlans)
    /\ UNCHANGED <<envVars, routerVars, cacheVars, storeVars, req, loc>>

(***************************************************************************)
(* The specifications.                                                     *)
(***************************************************************************)
Handle(p) ==
    \/ HealthCheck(p)
    \/ GetApplications(p)
    \/ GetApplicationsLimits(p)
    \/ GetApplication(p)
    \/ CreateApplication(p)
    \/ CreateApplication_Writer(p)
    \/ UpdateApplication(p)
    \/ UpdateApplication_Writer(p)
    \/ UpdateApplication_Merge(p)
    \/ UpdateApplication_Respond(p)
    \/ UpdateFirstDateSurpassed(p)
    \/ UpdateFirstDateSurpassed_Writer(p)
    \/ UpdateFirstDateSurpassed_Assign(p)
    \/ UpdateFirstDateSurpassed_Respond(p)
    \/ GetApplicationByUserID(p)
    \/ GetBlockchains(p)
    \/ GetBlockchain(p)
    \/ ActivateBlockchain(p)
    \/ ActivateBlockchain_Writer(p)
    \/ CreateBlockchain(p)
    \/ CreateBlockchain_Writer(p)
    \/ CreateRedirect(p)
    \/ CreateRedirect_Writer(p)
    \/ GetLoadBalancers(p)
    \/ GetLoadBalancer(p)
    \/ GetLoadBalancerByUserID(p)
    \/ CreateLoadBalancer(p)
    \/ CreateLoadBalancer_Writer(p)
    \/ UpdateLoadBalancer(p)
    \/ UpdateLoadBalancer_Writer(p)
    \/ UpdateLoadBalancer_Merge(p)
    \/ UpdateLoadBalancer_Respond(p)
    \/ GetPayPlan(p)
    \/ GetPayPlans(p)

\* requests served concurrently, their steps interleaved
Next == \E p \in Procs : AuthorizationHandler(p) \/ Handle(p)

Spec == Init /\ [][Next]_vars

InFlight(q) == pc[q] \notin {"idle", "done", "aborted"}

\* one client, each request sent after the previous one has ended
AuthorizationHandler_Seq(p) ==
    /\ \A q \in Procs \ {p} : ~InFlight(q)
    /\ AuthorizationHandler(p)

NextSeq == \E p \in Procs : AuthorizationHandler_Seq(p) \/ Handle(p)

SpecSeq == Init /\ [][NextSeq]_vars

(***************************************************************************)
(* Properties.                                                             *)
(***************************************************************************)
\* the step is one of request p
Acting(p) == pc'[p] # pc[p] \/ loc'[p] # loc[p]

\* request p has ended with a response of this route and status code
Ended(p, route, code) ==
    pc[p] = "done" /\ req[p].route = route /\ resp[p].code = code

\* request p is the only one that was sent
Alone(p) == \A q \in Procs \ {p} : pc[q] = "idle"

RECURSIVE AssignAll(_, _, _, _)
AssignAll(cache, id, todo, in) ==
    IF todo = <<>> THEN cache
    ELSE AssignAll(UpdateApplication_Assign(cache, id, Head(todo), in),
                   id, Tail(todo), in)

\* C1: a step of a request changes a cached entity only if the request's
\* Writer call has returned and returned no error; a request whose Writer
\* call returned an error changes no field of any cached entity.
C1_MirrorWrittenOnlyAfterStoreSuccess ==
    [][\A p \in Procs :
        Acting(p) /\ (apps' # apps \/ lbs' # lbs \/ bcs' # bcs)
            => loc[p].err = "nil"]_vars

\* C1 witness: an update whose Writer call failed has ended with a 500 and
\* the application is as it was when the Writer was called.
C1_Witness ==
    \E p \in Procs :
        /\ Ended(p, "UpdateApplication", StatusInternalServerError)
        /\ loc[p].err = "error"
        /\ req[p].in[1].name # ""
        /\ apps[req[p].id] = loc[p].pre[1]

\* C2: a GetApplication of E served while one UpdateApplication that sets two
\* or more fields of E is between its Writer call and its response returns E
\* either as it was before the update or as it is after the whole merge.
C2_ReadsSeeWholeMerge ==
    [][\A r \in Procs, u \in Procs :
        (/\ req[r].route = "GetApplication"
         /\ pc[r] = "routed" /\ pc'[r] = "done" /\ resp'[r].code = StatusOK
         /\ pc[u] \in {"UpdateApplication_Assign", "UpdateApplication_Respond"}
         /\ req[u].id = req'[r].id
         /\ ~req[u].in[1].remove
         /\ req[u].in[1].payPlanType \in DOMAIN payPlans \cup {""}
         /\ Len(UpdateApplication_Todo(req[u].in[1])) >= 2)
        => LET id == req[u].id
               in == req[u].in[1]
               before == loc[u].pre[1]
               after == AssignAll([x \in {id} |-> before], id,
                                  UpdateApplication_Todo(in), in)[id]
           IN resp'[r].body \in {before, after}]_vars

\* C3: once a create request has ended with 200, a get by the new
\* identifier finds the entity the create returned, and an entity with an
\* owning user is in that user's list.
C3_CreatedEntityIsRetrievable ==
    \A p \in Procs :
        /\ Ended(p, "CreateApplication", StatusOK) =>
            /\ Cache_GetApplication(req[p].in[1].id) # <<>>
            /\ apps[req[p].in[1].id] = resp[p].body
            /\ \E i \in 1..Len(Cache_GetApplicationsByUserID(resp[p].body.userID)) :
                Cache_GetApplicationsByUserID(resp[p].body.userID)[i].id
                    = req[p].in[1].id
        /\ Ended(p, "CreateLoadBalancer", StatusOK) =>
            /\ Cache_GetLoadBalancer(req[p].in[1].id) # <<>>
            /\ lbs[req[p].in[1].id] = resp[p].body
            /\ \E i \in 1..Len(Cache_GetLoadBalancersByUserID(resp[p].body.userID)) :
                Cache_GetLoadBalancersByUserID(resp[p].body.userID)[i].id
                    = req[p].in[1].id
        /\ Ended(p, "CreateBlockchain", StatusOK) =>
            /\ Cache_GetBlockchain(req[p].in[1].id) # <<>>
            /\ bcs[req[p].in[1].id] = resp[p].body

\* C4: once an ActivateBlockchain(b, v) has ended with 200 and no other
\* activation was sent, the blockchain the mirror serves for b has
\* active = v, the value the Store holds.
C4_ActivationReachesMirror ==
    \A p \in Procs :
        (/\ Ended(p, "ActivateBlockchain", StatusOK)
         /\ \A q \in Procs \ {p} : req[q].route # "ActivateBlockchain")
        => /\ storeBCs[req[p].id].active = req[p].in[1]
           /\ Cache_GetBlockchain(req[p].id) # <<>>
           /\ bcs[req[p].id].active = req[p].in[1]

\* C5: an UpdateApplication (remove=false) naming a pay plan that is not in
\* the cache's pay-plan index ends with an error response, and the
\* application's limits are as they were.
C5_UnknownPlanEndsWithError ==
    \A p \in Procs :
        (/\ req[p].route = "UpdateApplication"
         /\ pc[p] \in {"done", "aborted"}
         /\ req[p].in # <<>>
         /\ ~req[p].in[1].remove
         /\ req[p].in[1].payPlanType # ""
         /\ Cache_GetPayPlan(req[p].in[1].payPlanType) = <<>>)
        => /\ pc[p] = "done"
           /\ resp[p].code \in {StatusBadRequest, StatusNotFound,
                                StatusInternalServerError}
           /\ (Alone(p) /\ loc[p].pre # <<>>)
                => apps[req[p].id].limits = loc[p].pre[1].limits

\* the step in which request p, an update of this route, writes its response
Responds(p, route) ==
    /\ req[p].route = route
    /\ pc[p] = route \o "_Respond"
    /\ pc'[p] = "done"

\* the cached field an update field is merged into
CachedFieldOf(f) == IF f = "payPlanType" THEN "limits" ELSE f

\* the value an update field carries for the cached field
IncomingValueOf(f, in) ==
    CASE f \in {"name", "status", "firstDateSurpassed"} -> in[f]
      [] f \in {"gatewaySettings", "notificationSettings", "stickyOptions"} ->
            in[f][1]
      [] f = "payPlanType" ->
            [planType |-> in.payPlanType,
             dailyLimit |-> payPlans[in.payPlanType].dailyLimit]

\* entity `cur` is entity `was` merged with update body `in`: each updatable
\* field is the incoming value if that is non-zero and the old value if it is
\* zero, and no other field differs
MergedBySentinel(cur, was, fields, zero, in) ==
    /\ DOMAIN cur = DOMAIN was
    /\ \A i \in 1..Len(fields) :
        cur[CachedFieldOf(fields[i])] =
            IF in[fields[i]] # zero[fields[i]]
            THEN IncomingValueOf(fields[i], in)
            ELSE was[CachedFieldOf(fields[i])]
    /\ \A g \in DOMAIN was \ {CachedFieldOf(fields[i]) : i \in 1..Len(fields)} :
        cur[g] = was[g]

\* C6: when an UpdateApplication (remove=false) naming a plan P of the
\* cache's pay-plan index writes its response, the cached application's
\* limits are P's planType and exactly P's dailyLimit, and so are the
\* returned ones.
C6_KnownPlanSetsLimits ==
    [][\A p \in Procs :
        (/\ Responds(p, "UpdateApplication")
         /\ ~req[p].in[1].remove
         /\ req[p].in[1].payPlanType \in DOMAIN payPlans)
        => LET P == payPlans[req[p].in[1].payPlanType]
           IN /\ apps[req[p].id].limits.planType = P.planType
              /\ apps[req[p].id].limits.dailyLimit = P.dailyLimit
              /\ resp'[p].body.limits = apps[req[p].id].limits]_vars

\* C6 witness: an application on FREETIER_V0 has been moved to
\* TEST_PLAN_10K and its cached daily limit is 10000.
C6_Witness ==
    \E p \in Procs :
        /\ Ended(p, "UpdateApplication", StatusOK)
        /\ ~req[p].in[1].remove
        /\ req[p].in[1].payPlanType = "TEST_PLAN_10K"
        /\ loc[p].pre[1].limits.dailyLimit = 250000
        /\ apps[req[p].id].limits =
            [planType |-> "TEST_PLAN_10K", dailyLimit |-> 10000]

C8_SentinelMerge ==
    [][\A p \in Procs :
        /\ (Responds(p, "UpdateApplication") /\ ~req[p].in[1].remove)
            => /\ MergedBySentinel(apps[req[p].id], loc[p].pre[1],
                    UpdateApplicationFields, ZeroUpdateApplication,
                    req[p].in[1])
               /\ resp'[p].body = apps[req[p].id]
        /\ (Responds(p, "UpdateLoadBalancer") /\ ~req[p].in[1].remove)
            => /\ MergedBySentinel(lbs[req[p].id], loc[p].pre[1],
                    UpdateLoadBalancerFields, ZeroUpdateLoadBalancer,
                    req[p].in[1])
               /\ resp'[p].body = lbs[req[p].id]
        /\ (Acting(p) /\ req[p].route = "UpdateApplication")
            => /\ \A x \in DOMAIN apps \ {req'[p].id} : apps'[x] = apps[x]
               /\ lbs' = lbs
        /\ (Acting(p) /\ req[p].route = "UpdateLoadBalancer")
            => /\ \A x \in DOMAIN lbs \ {req'[p].id} : lbs'[x] = lbs[x]
               /\ apps' = apps]_vars

\* C8 witness: an update carrying only a status has ended, and the cached
\* application differs from the one before it in the status alone.
C8_Witness ==
    \E p \in Procs :
        /\ Ended(p, "UpdateApplication", StatusOK)
        /\ req[p].in[1] = [ZeroUpdateApplication EXCEPT !.status = "ORPHANED"]
        /\ loc[p].pre[1].status = "IN_SERVICE"
        /\ apps[req[p].id] = [loc[p].pre[1] EXCEPT !.status = "ORPHANED"]

\* request p is an update with an all-zero body that ended with 200
NoOpUpdate(p) ==
    \/ /\ Ended(p, "UpdateApplication", StatusOK)
       /\ req[p].in[1] = ZeroUpdateApplication
    \/ /\ Ended(p, "UpdateLoadBalancer", StatusOK)
       /\ req[p].in[1] = ZeroUpdateLoadBalancer

EntityOf(p) ==
    IF req[p].route = "UpdateApplication" THEN apps[req[p].id]
    ELSE lbs[req[p].id]

\* C9: after an all-zero update (remove=false) of an application or a load
\* balancer, alone or followed by the same all-zero update, the cached
\* entity is the one of before the first of them, and it is the one
\* returned.
C9_NoOpUpdateIsIdempotent ==
    \A p \in Procs :
        (/\ NoOpUpdate(p)
         /\ \A q \in Procs \ {p} :
                \/ pc[q] = "idle"
                \/ /\ NoOpUpdate(q)
                   /\ req[q].route = req[p].route
                   /\ req[q].id = req[p].id)
        => /\ EntityOf(p) = loc[p].pre[1]
           /\ resp[p].body = loc[p].pre[1]

\* C9 witness: the all-zero update was applied to application a1 twice.
C9_Witness ==
    \A p \in Procs :
        /\ NoOpUpdate(p)
        /\ req[p].route = "UpdateApplication"
        /\ req[p].id = "a1"
        /\ apps["a1"] = loc[p].pre[1]

\* C10: when a remove update writes its response the application's status is
\* AwaitingGracePeriod, the load balancer's owning user is empty; and no step
\* of any request takes an application or a load balancer out of get by ID
\* or out of the list of all entities of its type.
C10_SoftRemovalNeverDeletes ==
    [][/\ \A p \in Procs :
            /\ (Responds(p, "UpdateApplication") /\ req[p].in[1].remove)
                => /\ apps[req[p].id].status = AwaitingGracePeriod
                   /\ resp'[p].body.status = AwaitingGracePeriod
            /\ (Responds(p, "UpdateLoadBalancer") /\ req[p].in[1].remove)
                => /\ lbs[req[p].id].userID = ""
                   /\ resp'[p].body.userID = ""
       /\ \A id \in DOMAIN apps :
            /\ id \in DOMAIN apps'
            /\ \E i \in 1..Len(ListOf(apps', DOMAIN apps')) :
                ListOf(apps', DOMAIN apps')[i].id = id
       /\ \A id \in DOMAIN lbs :
            /\ id \in DOMAIN lbs'
            /\ \E i \in 1..Len(ListOf(lbs', DOMAIN lbs')) :
                ListOf(lbs', DOMAIN lbs')[i].id = id]_vars

\* C10 witness: application a1 was removed, and the get by ID sent after it
\* returned a1 with the AwaitingGracePeriod status.
C10_Witness ==
    /\ Ended("p1", "UpdateApplication", StatusOK)
    /\ req["p1"].id = "a1"
    /\ req["p1"].in[1].remove
    /\ Ended("p2", "GetApplication", StatusOK)
    /\ req["p2"].id = "a1"
    /\ resp["p2"].body.status = AwaitingGracePeriod

\* C11: a remove update that also carries non-zero fields makes the Store
\* hold the row of before with the removal transition alone (no field of the
\* body written to it), and when it writes its response the cached entity is
\* the one of before the update with only the application's status, or the
\* load balancer's owning user, changed.
C11_RemoveExcludesFieldChanges ==
    [][\A p \in Procs :
        /\ (/\ pc[p] = "UpdateApplication_Writer" /\ pc'[p] # pc[p]
            /\ req[p].in[1].remove)
            => storeApps' =
                IF loc'[p].err = "nil"
                THEN [storeApps EXCEPT
                        ![req[p].id].status = AwaitingGracePeriod]
                ELSE storeApps
        /\ (/\ pc[p] = "UpdateLoadBalancer_Writer" /\ pc'[p] # pc[p]
            /\ req[p].in[1].remove)
            => storeLBs' =
                IF loc'[p].err = "nil"
                THEN [storeLBs EXCEPT ![req[p].id].userID = ""]
                ELSE storeLBs
        /\ (Responds(p, "UpdateApplication") /\ req[p].in[1].remove)
            => /\ apps[req[p].id] =
                    [loc[p].pre[1] EXCEPT !.status = AwaitingGracePeriod]
               /\ resp'[p].body = apps[req[p].id]
        /\ (Responds(p, "UpdateLoadBalancer") /\ req[p].in[1].remove)
            => /\ lbs[req[p].id] = [loc[p].pre[1] EXCEPT !.userID = ""]
               /\ resp'[p].body = lbs[req[p].id]]_vars

\* C11 witness: a remove of load balancer l1 that also carried a new name
\* and new stickiness options has ended; the cache and the Store still hold
\* the old name and options, and the owning user is empty.
C11_Witness ==
    \E p \in Procs :
        /\ Ended(p, "UpdateLoadBalancer", StatusOK)
        /\ req[p].in[1].remove
        /\ req[p].in[1].name = "lb1"
        /\ req[p].in[1].stickyOptions # <<>>
        /\ loc[p].pre[1].name = "lb0"
        /\ lbs[req[p].id] = [loc[p].pre[1] EXCEPT !.userID = ""]
        /\ lbs[req[p].id].name = "lb0"
        /\ storeLBs[req[p].id].name = "lb0"
        /\ storeLBs[req[p].id].stickyOptions = loc[p].pre[1].stickyOptions

\* C12: a list of the applications, or of the load balancers, of a user who
\* owns nothing ends with a 200 carrying the empty sequence, never with a
\* not-found error.
C12_ListByUserOwningNothingIsEmpty ==
    \A p \in Procs :
        /\ (/\ pc[p] = "done"
            /\ req[p].route = "GetApplicationByUserID"
            /\ resp[p].code # StatusUnauthorized
            /\ Cache_GetApplicationsByUserID(req[p].id) = <<>>)
            => resp[p] = [code |-> StatusOK, body |-> <<>>]
        /\ (/\ pc[p] = "done"
            /\ req[p].route = "GetLoadBalancerByUserID"
            /\ resp[p].code # StatusUnauthorized
            /\ Cache_GetLoadBalancersByUserID(req[p].id) = <<>>)
            => resp[p] = [code |-> StatusOK, body |-> <<>>]

\* the step in which request p, a get by identifier of this route, answers
Answers(p, route) ==
    /\ req[p].route = route
    /\ pc[p] = "routed"
    /\ pc'[p] = "done"

\* the answer of request p is the entity the index holds under key k, or
\* not-found when the index holds nothing under k
EntityOrNotFound(p, index, k) ==
    IF k \in DOMAIN index
    THEN /\ resp'[p].code = StatusOK
         /\ resp'[p].body = index[k]
    ELSE /\ resp'[p].code = StatusNotFound
         /\ resp'[p].body \in {"applications not found",
                               "load balancer not found",
                               "blockchain not found", "pay plan not found"}

\* C13: a get by identifier answers not-found (a 404 carrying an error
\* message, never an entity) when the index of applications, load balancers,
\* blockchains or pay plans holds nothing under the identifier, and answers
\* 200 with the indexed entity when it holds one; a pay plan is looked up
\* under the upper-cased type.
C13_GetByIDIsEntityOrNotFound ==
    [][\A p \in Procs :
        /\ Answers(p, "GetApplication")
            => EntityOrNotFound(p, apps, req'[p].id)
        /\ Answers(p, "GetLoadBalancer")
            => EntityOrNotFound(p, lbs, req'[p].id)
        /\ Answers(p, "GetBlockchain")
            => EntityOrNotFound(p, bcs, req'[p].id)
        /\ Answers(p, "GetPayPlan")
            => EntityOrNotFound(p, payPlans, ToUpper(req'[p].id))]_vars

\* C13 witness: a get of application a3, which is not indexed, was answered
\* 404, and a get of the indexed application a1 was answered with a1.
C13_Witness ==
    /\ Ended("p1", "GetApplication", StatusNotFound)
    /\ req["p1"].id = "a3"
    /\ "a3" \notin DOMAIN apps
    /\ Ended("p2", "GetApplication", StatusOK)
    /\ req["p2"].id = "a1"
    /\ resp["p2"].body = apps["a1"]

\* the mirror holds the four indices and the two secondary indices that the
\* population builds from the bulk read
Populated ==
    /\ payPlans = SeedPayPlans
    /\ DOMAIN apps = DOMAIN SeedApps
    /\ DOMAIN lbs = DOMAIN SeedLBs
    /\ DOMAIN bcs = DOMAIN SeedBCs
    /\ appsByUser = SecondaryIndex(SeedApps)
    /\ lbsByUser = SecondaryIndex(SeedLBs)

\* C14: when the population failed no Router exists, so no request is ever
\* started or answered; and any request that was started finds the mirror
\* populated.
C14_NoRequestOnUnpopulatedMirror ==
    /\ ~running =>
        \A p \in Procs : pc[p] = "idle" /\ req[p] = NoReq /\ resp[p] = NoResp
    /\ (\E p \in Procs : pc[p] # "idle") => running /\ Populated

\* C14 witness: the bulk read failed; NewRouter returned no Router, the mirror
\* is empty and no request was taken.
C14_Witness ==
    /\ ~running
    /\ ~Populated
    /\ DOMAIN apps = {}
    /\ \A p \in Procs : pc[p] = "idle"

\* C15: an UpdateApplication (remove=false) that sets a name and/or a status
\* together with a payPlanType that is not in the cache's pay-plan index does
\* not succeed, and once it has ended the cached application is, field for
\* field, the one of before the request.
C15_FailedUpdateLeavesCacheUnchanged ==
    \A p \in Procs :
        (/\ req[p].route = "UpdateApplication"
         /\ pc[p] \in {"done", "aborted"}
         /\ Alone(p)
         /\ loc[p].pre # <<>>
         /\ ~req[p].in[1].remove
         /\ req[p].in[1].name # "" \/ req[p].in[1].status # ""
         /\ req[p].in[1].payPlanType # ""
         /\ Cache_GetPayPlan(req[p].in[1].payPlanType) = <<>>)
        => /\ ~(pc[p] = "done" /\ resp[p].code = StatusOK)
           /\ apps[req[p].id] = loc[p].pre[1]

\* C16: no request on a running router terminates abnormally; a request that
\* has ended has sent a response, one that has not ended has sent none; and
\* a CreateApplication whose record names a pay plan that is not in the
\* cache's pay-plan index ends with an error response.
C16_FailuresAreReturnedAsValues ==
    \A p \in Procs :
        /\ pc[p] # "aborted"
        /\ pc[p] = "done" <=> resp[p] # NoResp
        /\ (/\ req[p].route = "CreateApplication"
            /\ pc[p] \notin {"idle", "routed", "CreateApplication_Writer"}
            /\ req[p].in # <<>>
            /\ req[p].in[1].payPlanType # ""
            /\ Cache_GetPayPlan(req[p].in[1].payPlanType) = <<>>)
            => /\ pc[p] = "done"
               /\ resp[p].code \in {StatusBadRequest, StatusNotFound,
                                    StatusInternalServerError}

\* the applications an UpdateFirstDateSurpassed body names
NamedBy(in) == {in.applicationIDs[i] : i \in 1..Len(in.applicationIDs)}

\* C17: while an UpdateFirstDateSurpassed naming two or more applications is
\* between its Writer call and its response, no answer of GetApplications or
\* GetApplicationsLimits shows one named application with the new
\* firstDateSurpassed and another named application without it.
C17_NamedApplicationsChangeTogether ==
    [][\A r \in Procs, u \in Procs :
        (/\ req[u].route = "UpdateFirstDateSurpassed"
         /\ pc[u] \in {"UpdateFirstDateSurpassed_Assign",
                       "UpdateFirstDateSurpassed_Respond"}
         /\ pc[r] = "routed" /\ pc'[r] = "done")
        => LET in == req[u].in[1]
               body == resp'[r].body
           IN /\ req[r].route = "GetApplications" =>
                    ~\E i, j \in 1..Len(body) :
                        /\ {body[i].id, body[j].id} \subseteq NamedBy(in)
                        /\ body[i].firstDateSurpassed = in.firstDateSurpassed
                        /\ body[j].firstDateSurpassed # in.firstDateSurpassed
              /\ req[r].route = "GetApplicationsLimits" =>
                    ~\E i, j \in 1..Len(body) :
                        /\ {body[i].appID, body[j].appID} \subseteq NamedBy(in)
                        /\ body[i].firstDateSurpassed
                                = <<in.firstDateSurpassed>>
                        /\ body[j].firstDateSurpassed
                                # <<in.firstDateSurpassed>>]_vars

\* C18: the load balancer a CreateLoadBalancer returns has one element in
\* `applications` per member application ID of the persisted record, in the
\* same order, each element the application that the cache's application
\* index holds under that ID and none of them nil, and its raw ID list is
\* empty.
C18_MembersAreMaterialized ==
    \A p \in Procs :
        Ended(p, "CreateLoadBalancer", StatusOK)
        => LET ids == req[p].in[1].applicationIDs
               returned == resp[p].body
           IN /\ Len(returned.applications) = Len(ids)
              /\ \A i \in 1..Len(ids) :
                    /\ returned.applications[i] # <<>>
                    /\ returned.applications[i] = <<ids[i]>>
                    /\ ids[i] \in DOMAIN apps
              /\ returned.applicationIDs = <<>>

\* the nested object `cur`, given the one of before the update and the
\* pointer the body carries: the incoming object as a whole when the pointer
\* is set, the old object when it is nil
ReplacedWholesale(cur, was, ptr) ==
    cur = IF ptr # <<>> THEN ptr[1] ELSE was

\* C19: when an update (remove=false) writes its response, the cached
\* gatewaySettings, notificationSettings and stickiness options are each
\* exactly the object the body carries when it carries one (a sub-field the
\* body left at zero is zero in the cache) and the object of before the
\* update when the body carries none.
C19_NestedObjectsReplacedWholesale ==
    [][\A p \in Procs :
        /\ (Responds(p, "UpdateApplication") /\ ~req[p].in[1].remove)
            => /\ ReplacedWholesale(apps[req[p].id].gatewaySettings,
                                    loc[p].pre[1].gatewaySettings,
                                    req[p].in[1].gatewaySettings)
               /\ ReplacedWholesale(apps[req[p].id].notificationSettings,
                                    loc[p].pre[1].notificationSettings,
                                    req[p].in[1].notificationSettings)
        /\ (Responds(p, "UpdateLoadBalancer") /\ ~req[p].in[1].remove)
            => ReplacedWholesale(lbs[req[p].id].stickyOptions,
                                 loc[p].pre[1].stickyOptions,
                                 req[p].in[1].stickyOptions)]_vars

\* C19 witness: an update carried gateway settings with a new secret key and
\* secretKeyRequired left at zero, and no notification settings; the cached
\* secretKeyRequired went from TRUE to FALSE and the notification settings
\* are the old ones.
C19_Witness ==
    \E p \in Procs :
        /\ Ended(p, "UpdateApplication", StatusOK)
        /\ ~req[p].in[1].remove
        /\ req[p].in[1].gatewaySettings =
            <<[secretKey |-> "sk1", secretKeyRequired |-> FALSE]>>
        /\ req[p].in[1].notificationSettings = <<>>
        /\ loc[p].pre[1].gatewaySettings.secretKeyRequired
        /\ ~apps[req[p].id].gatewaySettings.secretKeyRequired
        /\ apps[req[p].id].gatewaySettings.secretKey = "sk1"
        /\ apps[req[p].id].notificationSettings
            = loc[p].pre[1].notificationSettings

\* C20: the answer of GetApplicationsLimits has as many entries as the cache
\* has applications and exactly one entry per cached application; the entry
\* carries the application's limits planType and dailyLimit, its id, name,
\* owner, public key and notification settings, and a firstDateSurpassed
\* that is present, with the application's date, if and only if that date is
\* not zero.
C20_OneAppLimitsPerApplication ==
    [][\A p \in Procs :
        Answers(p, "GetApplicationsLimits")
        => LET body == resp'[p].body
           IN /\ resp'[p].code = StatusOK
              /\ Len(body) = Cardinality(DOMAIN apps)
              /\ \A id \in DOMAIN apps :
                    \E i \in 1..Len(body) :
                        /\ body[i].appID = id
                        /\ \A j \in 1..Len(body) : body[j].appID = id => j = i
                        /\ body[i].planType = apps[id].limits.planType
                        /\ body[i].dailyLimit = apps[id].limits.dailyLimit
                        /\ body[i].appName = apps[id].name
                        /\ body[i].appUserID = apps[id].userID
                        /\ body[i].publicKey = apps[id].publicKey
                        /\ body[i].notificationSettings
                                = <<apps[id].notificationSettings>>
                        /\ body[i].firstDateSurpassed # <<>>
                                <=> apps[id].firstDateSurpassed # 0
                        /\ apps[id].firstDateSurpassed # 0
                                => body[i].firstDateSurpassed
                                        = <<apps[id].firstDateSurpassed>>]_vars

\* C20 witness: after firstDateSurpassed was set on application a1 alone,
\* GetApplicationsLimits answered two entries, the one of a1 with the date
\* and a1's plan, the one of a2 without a date.
C20_Witness ==
    /\ Ended("p1", "UpdateFirstDateSurpassed", StatusOK)
    /\ req["p1"].in[1].applicationIDs = <<"a1">>
    /\ Ended("p2", "GetApplicationsLimits", StatusOK)
    /\ Len(resp["p2"].body) = 2
    /\ \E i, j \in 1..2 :
        /\ resp["p2"].body[i].appID = "a1"
        /\ resp["p2"].body[i].firstDateSurpassed = <<9>>
        /\ resp["p2"].body[i].planType = "FREETIER_V0"
        /\ resp["p2"].body[i].dailyLimit = 250000
        /\ resp["p2"].body[j].appID = "a2"
        /\ resp["p2"].body[j].firstDateSurpassed = <<>>

\* requests p and q are two updates of this route, of the same entity, both
\* without remove, that have both ended with 200
BothUpdated(p, q, route) ==
    /\ p # q
    /\ Ended(p, route, StatusOK) /\ Ended(q, route, StatusOK)
    /\ req[p].id = req[q].id
    /\ ~req[p].in[1].remove /\ ~req[q].in[1].remove

\* C21: once two concurrent updates that set the same field of the same
\* application (or load balancer) to different values have both ended with
\* 200, the cached field is the value the Store holds; for payPlanType the
\* cached limits name the plan the Store holds.
C21_ConcurrentUpdatesConvergeWithStore ==
    \A p \in Procs, q \in Procs :
        /\ BothUpdated(p, q, "UpdateApplication")
            => LET id == req[p].id
                   a == req[p].in[1]
                   b == req[q].in[1]
               IN /\ \A f \in {"name", "status", "firstDateSurpassed"} :
                        (/\ a[f] # ZeroUpdateApplication[f]
                         /\ b[f] # ZeroUpdateApplication[f]
                         /\ a[f] # b[f])
                        => apps[id][f] = storeApps[id][f]
                  /\ (/\ a.payPlanType # "" /\ b.payPlanType # ""
                      /\ a.payPlanType # b.payPlanType)
                        => apps[id].limits.planType = storeApps[id].payPlanType
        /\ BothUpdated(p, q, "UpdateLoadBalancer")
            => LET id == req[p].id
                   a == req[p].in[1]
                   b == req[q].in[1]
               IN (a.name # "" /\ b.name # "" /\ a.name # b.name)
                    => lbs[id].name = storeLBs[id].name

\* the body names no application, or names one that the cache does not hold
NamesUnknown(in) ==
    \/ Len(in.applicationIDs) = 0
    \/ \E id \in NamedBy(in) : id \notin DOMAIN apps

\* C22: an UpdateFirstDateSurpassed whose ID list is empty or names an
\* application absent from the cache ends at once with a 400 or a 404,
\* without a Writer call and with the cache and the Store as they were; a
\* request naming only cached applications, when it writes its response after
\* the Writer succeeded, has set firstDateSurpassed of every named application
\* to the value of the body.
C22_FirstDateSurpassedAllOrNothing ==
    [][\A p \in Procs :
        /\ (/\ Routed(p, "UpdateFirstDateSurpassed")
            /\ pc'[p] # pc[p]
            /\ req'[p].in # <<>>
            /\ NamesUnknown(req'[p].in[1]))
            => /\ pc'[p] = "done"
               /\ resp'[p].code \in {StatusBadRequest, StatusNotFound}
               /\ loc'[p] = NoLoc
               /\ apps' = apps
               /\ storeApps' = storeApps
        /\ Responds(p, "UpdateFirstDateSurpassed")
            => /\ loc[p].err = "nil"
               /\ ~NamesUnknown(req[p].in[1])
               /\ \A id \in NamedBy(req[p].in[1]) :
                    /\ apps[id].firstDateSurpassed
                            = req[p].in[1].firstDateSurpassed
                    /\ storeApps[id].firstDateSurpassed
                            = req[p].in[1].firstDateSurpassed]_vars

\* C22 witness: a request naming a1 and the unknown a3 was answered 404
\* without a Writer call; the request sent after it, naming a1 and a2, ended
\* with 200 and both applications carry the new date.
C22_Witness ==
    /\ Ended("p1", "UpdateFirstDateSurpassed", StatusNotFound)
    /\ req["p1"].in[1].applicationIDs = <<"a1", "a3">>
    /\ loc["p1"] = NoLoc
    /\ Ended("p2", "UpdateFirstDateSurpassed", StatusOK)
    /\ req["p2"].in[1].applicationIDs = <<"a1", "a2">>
    /\ apps["a1"].firstDateSurpassed = 9
    /\ apps["a2"].firstDateSurpassed = 9

\* request p was sent to a path other than "/" with an Authorization header
\* that is no key of the router's API-key set
Unauthorized(p) ==
    /\ req[p].route \notin {"none", "HealthCheck"}
    /\ req[p].auth \notin APIKeys

\* C23: a request to a path other than "/" whose Authorization header is no
\* API key has ended with the 401 response and never reached its handler (no
\* path variable or body read, no Writer call); as long as only such requests
\* and health checks were sent, the Store and the mirror are as they were at
\* start; a health check reaches its handler whatever the header and is
\* answered 200.
C23_AuthorizationGate ==
    /\ \A p \in Procs :
        /\ Unauthorized(p)
            => /\ pc[p] = "done"
               /\ resp[p] = [code |-> StatusUnauthorized,
                             body |-> "Unauthorized"]
               /\ req[p].id = "" /\ req[p].in = <<>>
               /\ loc[p] = NoLoc
        /\ req[p].route = "HealthCheck"
            => /\ pc[p] \in {"routed", "done"}
               /\ pc[p] = "done" => resp[p].code = StatusOK
    /\ (running /\ \A p \in Procs :
            req[p].route \in {"none", "HealthCheck"} \/ Unauthorized(p))
        => /\ storeApps = SeedApps /\ storeLBs = SeedLBs
           /\ storeBCs = SeedBCs /\ storeRedirects = {}
           /\ Populated
           /\ \A id \in DOMAIN apps :
                apps[id] = AssembleApplication(SeedApps[id], SeedPayPlans)
           /\ \A id \in DOMAIN lbs : lbs[id] = AssembleLoadBalancer(SeedLBs[id])
           /\ bcs = SeedBCs

\* C23 witness: a health check carrying a wrong key was answered 200, and an
\* UpdateApplication carrying a wrong key was answered 401 with the Store
\* rows untouched.
C23_Witness ==
    /\ Ended("p1", "HealthCheck", StatusOK)
    /\ req["p1"].auth \notin APIKeys
    /\ Ended("p2", "UpdateApplication", StatusUnauthorized)
    /\ req["p2"].auth \notin APIKeys
    /\ loc["p2"] = NoLoc
    /\ storeApps = SeedApps

(***************************************************************************)
(* package environment.  A string is the sequence of its characters.       *)
(***************************************************************************)
\* the longest value of the variable
MaxLen == 3

Chars == {"a", "b", ","}

RECURSIVE StringsUpTo(_)
StringsUpTo(n) ==
    IF n = 0 THEN {<<>>}
    ELSE StringsUpTo(n - 1)
            \cup {Append(s, c) : s \in StringsUpTo(n - 1), c \in Chars}

\* the variable is unset (<<>>) or set to a value, the empty value included
Environs == {<<>>} \cup {<<s>> : s \in StringsUpTo(MaxLen)}

DefaultValues == {<<>>, <<"a">>, <<"a", ",", "b">>}

Separators == {","}

\* os.LookupEnv: the value, "" when the variable is unset
LookupEnv(env) == IF env = <<>> THEN <<>> ELSE env[1]

GetString(env, defaultValue) ==
    LET val == LookupEnv(env)
    IN IF val = <<>> THEN defaultValue ELSE val

\* strings.Split for a separator of one character: the pieces between the
\* separators, empty pieces included; one empty piece for the empty string
RECURSIVE Split(_, _)
Split(s, separator) ==
    IF \A i \in 1..Len(s) : s[i] # separator
    THEN <<s>>
    ELSE LET i == CHOOSE k \in 1..Len(s) :
                    /\ s[k] = separator
                    /\ \A j \in 1..(k - 1) : s[j] # separator
         IN <<SubSeq(s, 1, i - 1)>> \o Split(SubSeq(s, i + 1, Len(s)), separator)

\* the map as the set of its keys, every one of them mapped to true
GetStringMap(env, defaultValue, separator) ==
    LET stringSlice == Split(GetString(env, defaultValue), separator)
    IN {stringSlice[i] : i \in 1..Len(stringSlice)}

\* the start of the process: the environment is given, nothing was built
InitEnv ==
    /\ environ \in Environs
    /\ envCall = <<>>
    /\ running = FALSE
    /\ APIKeys = {}
    /\ payPlans = << >> /\ apps = << >> /\ lbs = << >> /\ bcs = << >>
    /\ appsByUser = << >> /\ lbsByUser = << >>
    /\ storeApps = SeedApps /\ storeLBs = SeedLBs /\ storeBCs = SeedBCs
    /\ storeRedirects = {}
    /\ pc = [p \in Procs |-> "idle"]
    /\ req = [p \in Procs |-> NoReq]
    /\ loc = [p \in Procs |-> NoLoc]
    /\ resp = [p \in Procs |-> NoResp]

GetStringMap_Call ==
    /\ envCall = <<>>
    /\ \E defaultValue \in DefaultValues, separator \in Separators :
        envCall' = <<[defaultValue |-> defaultValue,
                      separator |-> separator,
                      stringMap |-> GetStringMap(environ, defaultValue,
                                                 separator)]>>
    /\ UNCHANGED <<environ, routerVars, cacheVars, storeVars, pc, req, loc,
                   resp>>

NextEnv == GetStringMap_Call

SpecEnv == InitEnv /\ [][NextEnv]_vars

\* the non-empty items of a delimited value: its maximal runs of characters
\* other than the separator
NonEmptyItems(raw, separator) ==
    {SubSeq(raw, x[1], x[2]) :
        x \in {y \in (1..Len(raw)) \X (1..Len(raw)) :
                /\ y[1] <= y[2]
                /\ \A k \in y[1]..y[2] : raw[k] # separator
                /\ y[1] = 1 \/ raw[y[1] - 1] = separator
                /\ y[2] = Len(raw) \/ raw[y[2] + 1] = separator}}

\* C24: the keys of the map GetStringMap returns are exactly the non-empty
\* items of the delimited value (the variable's value, or the default when
\* the variable is unset or empty); the empty string is never a key, and an
\* empty value yields no key.
C24_KeysAreTheNonEmptyItems ==
    envCall # <<>>
    => LET call == envCall[1]
           raw == IF environ = <<>> \/ environ = << <<>> >>
                  THEN call.defaultValue ELSE environ[1]
       IN /\ <<>> \notin call.stringMap
          /\ call.stringMap = NonEmptyItems(raw, call.separator)
          /\ raw = <<>> => call.stringMap = {}

====
